---- MODULE Spec2Model ----
(***************************************************************************)
(* Model of the tritonparse reproducer core:                               *)
(*   - the trace event correlator   (reproducer/ingestion/ndjson.py)       *)
(*   - the kernel info extractor    (reproducer/ingestion/ndjson.py)       *)
(*   - the integrity-checked loader (tools/load_tensor.py, repro1.py)      *)
(*   - the argument synthesizer     (reproducer/utils.py, repro1.py)       *)
(*   - the type-handle cache        (reproducer/utils.py)                  *)
(*   - the reproduce orchestrator   (reproducer/orchestrator.py)           *)
(*   - the utility-function extractor (reproducer/function_extractor.py)   *)
(*   - the SASS source-mapping extractor (exercised by test_sass_*.py)     *)
(* Each component has its own specification: Init draws the inputs from    *)
(* bounded sets and the actions run the code.  The functions are           *)
(* synchronous; reproduce and extract_utility_functions advance call by    *)
(* call, and the type-handle cache is run by interleaved threads.          *)
(*                                                                         *)
(* Python values are represented homogeneously:                            *)
(*   - a key that is missing from a dict is the string ABSENT,             *)
(*   - a JSON null / Python None is the string NULL,                       *)
(*   - Optional[int] is a sequence of length 0 (None) or 1 (the int),      *)
(*   - text that is searched or sliced is a sequence of 1-char strings,    *)
(*   - nested dicts are records with a "kind" field (absent, null, dict).  *)
(***************************************************************************)
EXTENDS Integers, Sequences, FiniteSets, TLC

VARIABLES
    pc,           \* position of the running call
    events,       \* correlator input: the ordered event list
    line_index,   \* correlator input: Optional[int]
    result,       \* correlator outcome: returned pair or raised exception
    comp_event,   \* get_kernel_info input: the compilation event
    kinfo,        \* get_kernel_info outcome: KernelInfo or raised exception
    impl,         \* which copy of the code runs: the package or repro1.py
    fs,           \* the blob files on disk: file name -> raw bytes
    tensor_file_path,  \* load_tensor input: the file name
    device,       \* load_tensor input: Optional[str]
    lt_result,    \* load_tensor outcome of the last call
    lt_prev,      \* load_tensor outcome of the call before it
    arg_info,     \* _create_arg_from_info input: the argument descriptor
    arg_result,   \* _create_arg_from_info outcome
    TRITON_KERNELS_CUSTOM_TYPES,  \* module constant: triton_kernels.tensor was found
    json_data,    \* create_args_from_json: data, the decoded JSON document
    args_result,  \* create_args_from_json outcome
    thread_pc,    \* type-handle cache: position of every thread
    calls_made,   \* type-handle cache: composite descriptors a thread has begun to build
    cache,        \* type-handle cache: the handle lru_cache stores
    body_runs,    \* type-handle cache: executions of the lookup body, per thread
    received,     \* type-handle cache: the handle a thread's last lookup returned
    context_bundle,  \* reproduce: outcome of build_context_bundle
    made_dirs,    \* reproduce: directories created under out_dir
    written_files,   \* reproduce: files written
    steps_done,   \* reproduce: the calls made so far, in order
    utils_module,    \* extract_utility_functions: what utils.py defines
    load_tensor_module,  \* extract_utility_functions: what load_tensor.py defines
    extracted_code,  \* extract_utility_functions: the chunks collected so far
    extract_result,  \* extract_utility_functions outcome
    sass_content,    \* extract_sass_mappings input: the lines of the SASS text
    sass_mappings    \* extract_sass_mappings outcome

corrVars == <<events, line_index, result>>

kiVars == <<comp_event, kinfo>>

ltVars == <<impl, fs, tensor_file_path, device, lt_result, lt_prev>>

argVars == <<arg_info, arg_result, TRITON_KERNELS_CUSTOM_TYPES>>

cjVars == <<json_data, args_result>>

cacheVars == <<thread_pc, calls_made, cache, body_runs, received>>

reproVars == <<context_bundle, made_dirs, written_files, steps_done>>

fxVars == <<utils_module, load_tensor_module, extracted_code, extract_result>>

sassVars == <<sass_content, sass_mappings>>

\* the components added to the first four
extVars == <<cjVars, cacheVars, reproVars, fxVars, sassVars>>

vars == <<pc, corrVars, kiVars, ltVars, argVars, extVars>>

ABSENT == "<absent>"
NULL == "<null>"

(***************************************************************************)
(* Bounds                                                                  *)
(***************************************************************************)
MaxEvents == 3

\* longest run of filler characters between the pieces of a source text
MaxFill == 1

\* longest tensor payload, in bytes
MaxBytes == 2

\* most suffixes after the base of a blob file name
MaxExts == 2

(***************************************************************************)
(* Trace events.  event_type is always present (trace input format);       *)
(* "hash" is the top-level key read with event.get("hash");                *)
(* compilation_metadata is the launch-side dict holding the correlation    *)
(* key.                                                                    *)
(***************************************************************************)
NoMeta == [kind |-> "absent", hash |-> ABSENT]

Meta(h) == [kind |-> "dict", hash |-> h]

MkEvent(t, h, cm) == [event_type |-> t, hash |-> h, compilation_metadata |-> cm]

NoEvent == MkEvent("<none>", ABSENT, NoMeta)

LaunchEvents ==
    { MkEvent("launch", h, cm) :
        h \in {ABSENT, "h1"},
        cm \in {NoMeta, Meta(""), Meta("h1"), Meta("h2")} }

CompilationEvents == { MkEvent("compilation", h, NoMeta) : h \in {ABSENT, "h1", "h2"} }

OtherEvents == { MkEvent("other", h, NoMeta) : h \in {ABSENT, "h1"} }

Event == LaunchEvents \cup CompilationEvents \cup OtherEvents

EventLists == UNION { [1..n -> Event] : n \in 0..MaxEvents }

None == <<>>

Some(i) == <<i>>

LineIndexes == {None} \cup { Some(i) : i \in -(MaxEvents + 1)..(MaxEvents + 1) }

(***************************************************************************)
(* Python semantics used by the code                                       *)
(***************************************************************************)
\* bool(x) for a string-or-None value: None and "" are falsy
Truthy(s) == s \notin {ABSENT, NULL, ""}

\* launch_event.get("compilation_metadata", {}).get("hash")
CompMetaHash(e) ==
    IF e.compilation_metadata.kind = "dict" THEN e.compilation_metadata.hash ELSE ABSENT

\* list[i] for an int i: negative i counts from the end; the 1-based
\* position of the selected element, or 0 when Python raises IndexError
PyListPos(n, i) ==
    IF i >= 0 /\ i < n THEN i + 1
    ELSE IF i < 0 /\ i >= -n THEN n + i + 1
    ELSE 0

Return(l, c) == [status |-> "return", exc |-> "", msg |-> "", launch |-> l, comp |-> c]

Raise(x, m) == [status |-> "raise", exc |-> x, msg |-> m, launch |-> NoEvent, comp |-> NoEvent]

NoResult == [status |-> "none", exc |-> "", msg |-> "", launch |-> NoEvent, comp |-> NoEvent]

(***************************************************************************)
(* get_launch_and_compilation_events                                       *)
(***************************************************************************)
\* mutant: the event_type test of the comprehension is dropped
IsMatchingCompilation_AnyType(event, comp_hash) == event.hash = comp_hash

IsMatchingCompilation(event, comp_hash) ==
    event.event_type = "compilation" /\ event.hash = comp_hash

MatchingCompilations(evs, comp_hash) ==
    SelectSeq(evs, LAMBDA event : IsMatchingCompilation(event, comp_hash))

IndexRejected(evs, idx) == idx = None \/ idx[1] >= Len(evs)

\* mutant: every event type but "compilation" is taken for a launch
IsLaunch_NotCompilation(e) == e.event_type # "compilation"

IsLaunch(e) == e.event_type = "launch"

\* mutant: the empty match list is not told apart from an ambiguous one
NotFound_Never(comp_events) == FALSE

NotFound(comp_events) == Len(comp_events) = 0

\* mutant: the first of several matches is picked
Ambiguous_Never(comp_events) == FALSE

Ambiguous(comp_events) == Len(comp_events) # 1

get_launch_and_compilation_events(evs, idx) ==
    IF IndexRejected(evs, idx)
    THEN Raise("ValueError", "Invalid line_index")
    ELSE IF PyListPos(Len(evs), idx[1]) = 0
    THEN Raise("IndexError", "list index out of range")
    ELSE LET launch_event == evs[PyListPos(Len(evs), idx[1])]
             comp_hash == CompMetaHash(launch_event)
             comp_events == MatchingCompilations(evs, comp_hash)
         IN  IF ~IsLaunch(launch_event)
             THEN Raise("ValueError", "not a launch event")
             ELSE IF ~Truthy(comp_hash)
             THEN Raise("RuntimeError", "Could not find compilation hash")
             ELSE IF NotFound(comp_events)
             THEN Raise("RuntimeError", "Could not find compilation event")
             ELSE IF Ambiguous(comp_events)
             THEN Raise("RuntimeError", "Expected 1 compilation event")
             ELSE Return(launch_event, comp_events[1])

(***************************************************************************)
(* Compilation events as get_kernel_info reads them.  A dict of kind       *)
(* "dict" whose entries are all absent is the empty dict.                  *)
(***************************************************************************)
Chars == {"@", "x"}

Fillers == UNION { [1..n -> Chars] : n \in 0..MaxFill }

jit_marker == <<"@", "t", "r", "i", "t", "o", "n", ".", "j", "i", "t">>

\* the marker, a truncated marker, or nothing
MarkerPieces == {<<>>, jit_marker, SubSeq(jit_marker, 1, Len(jit_marker) - 1)}

SourceTexts ==
    { pre \o m1 \o mid \o m2 :
        pre \in Fillers, m1 \in MarkerPieces, mid \in Fillers, m2 \in MarkerPieces }

Str(t) == [kind |-> "str", text |-> t]

NoStr(k) == [kind |-> k, text |-> <<>>]

CodeValues == {NoStr("absent"), NoStr("null")} \cup { Str(t) : t \in SourceTexts }

PathValues == {ABSENT, NULL, "", "kernel.py"}

NameValues == {ABSENT, NULL, "", "add_kernel"}

PySource(c, f) == [kind |-> "dict", code |-> c, file_path |-> f]

NoPySource(k) == [kind |-> k, code |-> NoStr("absent"), file_path |-> ABSENT]

PySourceValues ==
    {NoPySource("absent"), NoPySource("null")}
        \cup { PySource(c, f) : c \in CodeValues, f \in PathValues }

Metadata(n) == [kind |-> "dict", name |-> n]

NoMetadata(k) == [kind |-> k, name |-> ABSENT]

MetadataValues ==
    {NoMetadata("absent"), NoMetadata("null")} \cup { Metadata(n) : n \in NameValues }

Payload(ps, md) == [kind |-> "dict", python_source |-> ps, metadata |-> md]

NoPayload(k) ==
    [kind |-> k, python_source |-> NoPySource("absent"), metadata |-> NoMetadata("absent")]

PayloadValues ==
    {NoPayload("absent"), NoPayload("null")}
        \cup { Payload(ps, md) : ps \in PySourceValues, md \in MetadataValues }

StackValues == {ABSENT, "[]", "[frame]"}

CompEvents == [payload : PayloadValues, stack : StackValues]

NoCompEvent == [payload |-> NoPayload("absent"), stack |-> ABSENT]

(***************************************************************************)
(* str.find and slicing                                                    *)
(***************************************************************************)
Min(S) == CHOOSE m \in S : \A n \in S : m <= n

Max(S) == CHOOSE m \in S : \A n \in S : m >= n

Occurrences(s, sub) ==
    { i \in 0..(Len(s) - Len(sub)) : SubSeq(s, i + 1, i + Len(sub)) = sub }

\* mutant: str.rfind, the last occurrence
StrFind_Last(s, sub) ==
    IF Occurrences(s, sub) = {} THEN -1 ELSE Max(Occurrences(s, sub))

\* s.find(sub): 0-based index of the first occurrence, -1 when there is none
StrFind(s, sub) ==
    IF Occurrences(s, sub) = {} THEN -1 ELSE Min(Occurrences(s, sub))

\* s[i:] for 0 <= i <= len(s)
SliceFrom(s, i) == SubSeq(s, i + 1, Len(s))

(***************************************************************************)
(* get_kernel_info                                                         *)
(***************************************************************************)
KernelInfo(f, n, c, st) ==
    [status |-> "return", exc |-> "", file_path |-> f, function_name |-> n,
     source_code |-> c, call_stack |-> st]

KiRaise(x) ==
    [status |-> "raise", exc |-> x, file_path |-> ABSENT, function_name |-> ABSENT,
     source_code |-> <<>>, call_stack |-> ABSENT]

NoKernelInfo ==
    [status |-> "none", exc |-> "", file_path |-> ABSENT, function_name |-> ABSENT,
     source_code |-> <<>>, call_stack |-> ABSENT]

\* d or {}: a missing, null or empty dict reads as the empty dict
PayloadOrEmpty(ce) ==
    IF ce.payload.kind = "dict" THEN ce.payload ELSE NoPayload("dict")

PySourceOrEmpty(payload) ==
    IF payload.python_source.kind = "dict" THEN payload.python_source ELSE NoPySource("dict")

MetadataOrEmpty(payload) ==
    IF payload.metadata.kind = "dict" THEN payload.metadata ELSE NoMetadata("dict")

\* py_source.get("code", ""): the default replaces a missing key only
CodeOf(py_source) ==
    IF py_source.code.kind = "absent" THEN Str(<<>>) ELSE py_source.code

\* the source text from the marker on, or unchanged without a marker
SliceAtMarker(text) ==
    IF StrFind(text, jit_marker) # -1
    THEN SliceFrom(text, StrFind(text, jit_marker))
    ELSE text

Unresolved(file_path, func_name) == ~Truthy(file_path) \/ ~Truthy(func_name)

get_kernel_info(ce) ==
    LET payload == PayloadOrEmpty(ce)
        py_source == PySourceOrEmpty(payload)
        code == CodeOf(py_source)
        file_path == py_source.file_path
        \* comp_event.get("payload", {}) keeps a null payload: None.get raises
        func_name == MetadataOrEmpty(ce.payload).name
    IN  IF ce.payload.kind = "null"
        THEN KiRaise("AttributeError")
        ELSE IF code.kind = "null"
        THEN KiRaise("AttributeError")
        ELSE IF Unresolved(file_path, func_name)
        THEN KiRaise("RuntimeError")
        ELSE KernelInfo(file_path, func_name, SliceAtMarker(code.text),
                        IF ce.stack = ABSENT THEN "[]" ELSE ce.stack)

KernelInfoIdle == comp_event = NoCompEvent /\ kinfo = NoKernelInfo

(***************************************************************************)
(* Blob files.  A byte is a 1-char token; "gz" and "eos" stand for the     *)
(* gzip header and trailer.  A file name is a base (the digest it claims)  *)
(* followed by suffixes.                                                   *)
(***************************************************************************)
PayloadBytes == {"0", "1"}

Contents == UNION { [1..n -> PayloadBytes] : n \in 0..MaxBytes }

\* gzip.compress
Gzip(b) == <<"gz">> \o b \o <<"eos">>

\* a gzip stream cut before its trailer
Truncated(b) == <<"gz">> \o b

RawFiles ==
    Contents \cup { Gzip(b) : b \in Contents } \cup { Truncated(b) : b \in Contents }

GunzipOk(raw) ==
    /\ Len(raw) >= 2
    /\ raw[1] = "gz"
    /\ raw[Len(raw)] = "eos"
    /\ \A i \in 2..(Len(raw) - 1) : raw[i] \in PayloadBytes

\* gzip.decompress of a well-formed stream
Gunzip(raw) == [i \in 1..(Len(raw) - 2) |-> raw[i + 1]]

ByteCode(c) ==
    CASE c = "0" -> 1
      [] c = "1" -> 2
      [] c = "gz" -> 3
      [] c = "eos" -> 4

RECURSIVE Blake2bOf(_, _)
Blake2bOf(b, acc) ==
    IF b = <<>> THEN acc ELSE Blake2bOf(Tail(b), acc * 5 + ByteCode(Head(b)))

\* hashlib.blake2b(bytes).hexdigest(): a digest is a number, and distinct
\* byte strings of the model have distinct digests
Blake2b(b) == Blake2bOf(b, 1)

Exts == {".bin", ".gz"}

ExtLists == UNION { [1..n -> Exts] : n \in 0..MaxExts }

Name(base, exts) == [base |-> base, exts |-> exts]

\* the text of a digest, a file name without suffixes
HexDigest(d) == Name(d, <<>>)

\* str(blob_path).endswith('.bin.gz')
EndsWithBinGz(path) ==
    /\ Len(path.exts) >= 2
    /\ path.exts[Len(path.exts) - 1] = ".bin"
    /\ path.exts[Len(path.exts)] = ".gz"

RECURSIVE RemoveBinGz(_)
RemoveBinGz(exts) ==
    IF Len(exts) < 2 THEN exts
    ELSE IF exts[1] = ".bin" /\ exts[2] = ".gz"
    THEN RemoveBinGz(SubSeq(exts, 3, Len(exts)))
    ELSE <<exts[1]>> \o RemoveBinGz(Tail(exts))

\* blob_path.name.replace('.bin.gz', '')
ReplaceBinGz(path) == Name(path.base, RemoveBinGz(path.exts))

\* blob_path.stem: the name without its last suffix
Stem(path) ==
    IF path.exts = <<>> THEN path ELSE Name(path.base, SubSeq(path.exts, 1, Len(path.exts) - 1))

Devices == {NULL, "cpu", "cuda:0"}

\* torch.load accepts the bytes torch.save wrote: here, those starting "1"
Deserializable(b) == Len(b) >= 1 /\ b[1] = "1"

\* torch.load(buffer, map_location=device)
TorchLoad(b, dev) == [data |-> b, device |-> IF dev = NULL THEN "saved" ELSE dev]

NoBuffer == [data |-> <<>>, device |-> ""]

LtReturn(buf, expected, computed, steps) ==
    [status |-> "return", exc |-> "", msg |-> "", buffer |-> buf,
     expected_hash |-> expected, computed_hash |-> computed, steps |-> steps]

LtRaise(x, m, expected, computed, steps) ==
    [status |-> "raise", exc |-> x, msg |-> m, buffer |-> NoBuffer,
     expected_hash |-> expected, computed_hash |-> computed, steps |-> steps]

NoHash == Name(0, <<>>)

NoLoad ==
    [status |-> "none", exc |-> "", msg |-> "", buffer |-> NoBuffer,
     expected_hash |-> NoHash, computed_hash |-> NoHash, steps |-> <<>>]

\* mutant: the comparison is skipped
HashMismatch_Never(computed_hash, expected_hash) == FALSE

HashMismatch(computed_hash, expected_hash) == computed_hash # expected_hash

\* the tail of both copies: verify the digest, then deserialize
VerifyAndLoad(contents, loaded, dev, expected_hash, steps) ==
    LET computed_hash == HexDigest(Blake2b(contents))
        hashed == steps \o <<"blake2b", "compare">>
    IN  IF HashMismatch(computed_hash, expected_hash)
        THEN LtRaise("ValueError", "Hash verification failed",
                     expected_hash, computed_hash, hashed)
        ELSE IF ~Deserializable(loaded)
        THEN LtRaise("RuntimeError", "Failed to load tensor",
                     expected_hash, computed_hash, hashed \o <<"torch.load">>)
        ELSE LtReturn(TorchLoad(loaded, dev),
                      expected_hash, computed_hash, hashed \o <<"torch.load">>)

\* tritonparse/tools/load_tensor.py
load_tensor(files, path, dev) ==
    IF path \notin DOMAIN files
    THEN LtRaise("FileNotFoundError", "Tensor blob not found", NoHash, NoHash, <<"exists">>)
    ELSE LET is_compressed == EndsWithBinGz(path)
             raw == files[path]
         IN  IF is_compressed /\ ~GunzipOk(raw)
             THEN LtRaise("RuntimeError", "Failed to decompress gzip file",
                          NoHash, NoHash, <<"exists", "read", "gunzip">>)
             ELSE LET file_contents == IF is_compressed THEN Gunzip(raw) ELSE raw
                      expected_hash == IF is_compressed THEN ReplaceBinGz(path) ELSE Stem(path)
                  IN  VerifyAndLoad(file_contents, file_contents, dev, expected_hash,
                                    IF is_compressed
                                    THEN <<"exists", "read", "gunzip">>
                                    ELSE <<"exists", "read">>)

\* load_tensor of repro1.py: no decompression, torch.load reads the file
repro1_load_tensor(files, path, dev) ==
    IF path \notin DOMAIN files
    THEN LtRaise("FileNotFoundError", "Tensor blob not found", NoHash, NoHash, <<"exists">>)
    ELSE VerifyAndLoad(files[path], files[path], dev, Stem(path), <<"exists", "read">>)

LoadTensor(which, files, path, dev) ==
    IF which = "repro1"
    THEN repro1_load_tensor(files, path, dev)
    ELSE load_tensor(files, path, dev)

Impls == {"tritonparse", "repro1"}

NoFiles == [n \in {} |-> <<>>]

LoaderIdle ==
    /\ impl = "tritonparse"
    /\ fs = NoFiles
    /\ tensor_file_path = NoHash
    /\ device = NULL
    /\ lt_result = NoLoad
    /\ lt_prev = NoLoad

(***************************************************************************)
(* Argument descriptors and torch dtypes                                   *)
(***************************************************************************)
\* a dtype string, split at "."; <<"">> is the empty string
DtypeStr(parts) == [kind |-> "str", parts |-> parts]

NoDtypeStr == [kind |-> "absent", parts |-> <<>>]

\* the dtype attributes of the torch module that the model names
TorchDtypes ==
    {"float16", "float32", "float64", "float8_e4m3fn", "int8", "int16", "int32",
     "int64", "uint8", "bool", "complex64", "complex128", "uint32", "qint8"}

DtypeStrs ==
    {NoDtypeStr, DtypeStr(<<"float32">>), DtypeStr(<<"torch", "no_such_dtype">>)}
        \cup { DtypeStr(<<"torch", d>>) :
                 d \in {"float16", "float32", "float8_e4m3fn", "int32", "uint8", "bool",
                        "complex64", "complex128", "uint32", "qint8"} }

\* getattr(torch, dtype_str.split(".")[-1]); the AttributeError of a missing
\* attribute, and of None.split, is caught and float32 is taken
ResolveDtype(dtype_str) ==
    IF dtype_str.kind # "str" THEN "float32"
    ELSE IF dtype_str.parts[Len(dtype_str.parts)] \in TorchDtypes
    THEN dtype_str.parts[Len(dtype_str.parts)]
    ELSE "float32"

\* the same lookup where no handler surrounds it: ABSENT is the AttributeError
GetDtypeAttr(dtype_str) ==
    IF dtype_str.kind # "str" THEN ABSENT
    ELSE IF dtype_str.parts[Len(dtype_str.parts)] \in TorchDtypes
    THEN dtype_str.parts[Len(dtype_str.parts)]
    ELSE ABSENT

\* tensor_props.is_floating_point()
IsFloatingPoint(torch_dtype) ==
    torch_dtype \in {"float16", "float32", "float64", "float8_e4m3fn"}

\* the dtypes listed for random_()
InRandomList(torch_dtype) ==
    torch_dtype \in {"int8", "int16", "int32", "int64", "uint8", "bool"}

\* tensor_props.is_complex()
IsComplex(torch_dtype) == torch_dtype \in {"complex64", "complex128"}

\* "uint" in str(torch_dtype)
NamesUint(torch_dtype) == torch_dtype \in {"uint8", "uint32"}

PathArg(k, path) == [kind |-> k, path |-> path]

\* the blob store of the synthesizer runs: a plain blob, a compressed blob
\* and a blob stored under the digest of other bytes; MissingBlob is not on disk
PlainBlob == Name(Blake2b(<<"1", "0">>), <<".bin">>)

GzBlob == Name(Blake2b(<<"1", "1">>), <<".bin", ".gz">>)

ForgedBlob == Name(Blake2b(<<"1">>), <<".bin">>)

MissingBlob == Name(Blake2b(<<"0">>), <<".bin">>)

BlobStore ==
    [n \in {PlainBlob, GzBlob, ForgedBlob} |->
        IF n = PlainBlob THEN <<"1", "0">>
        ELSE IF n = GzBlob THEN Gzip(<<"1", "1">>)
        ELSE <<"1", "1">>]

BlobPathValues ==
    {PathArg("absent", NoHash), PathArg("null", NoHash), PathArg("empty", NoHash)}
        \cup { PathArg("path", n) : n \in {PlainBlob, GzBlob, ForgedBlob, MissingBlob} }

\* the type tags of the composite descriptors
TensorTag == "triton_kernels.tensor.Tensor"

StorageTag == "triton_kernels.tensor.Storage"

LayoutTag == "StridedLayout"

\* a descriptor below the deepest nesting the model draws: reading it gives None
Nil == [kind |-> "absent"]

\* a descriptor ({} with every key missing) whose nested descriptors are child
EmptyInfo(child) ==
    [kind |-> "dict", type |-> ABSENT, value |-> ABSENT, dtype |-> NoDtypeStr,
     shape |-> ABSENT, device |-> ABSENT, blob_path |-> PathArg("absent", NoHash),
     storage |-> child, data |-> child, layout |-> child, initial_shape |-> ABSENT]

\* arg_info.get(key) of a missing nested descriptor: None
NoInfo(child) == [EmptyInfo(child) EXCEPT !.kind = "absent"]

\* descriptors without nested descriptors: two tensors (one of a dtype that
\* no branch handles), layouts and an unrecognized tag
Leaves(child) ==
    { [EmptyInfo(child) EXCEPT !.type = "tensor", !.dtype = DtypeStr(<<"torch", d>>)] :
        d \in {"float32", "qint8"} }
      \cup { [EmptyInfo(child) EXCEPT !.type = LayoutTag, !.initial_shape = s] :
               s \in {ABSENT, "[2, 3]"} }
      \cup { [EmptyInfo(child) EXCEPT !.type = "float"] }

Storages(child, nested) ==
    { [EmptyInfo(child) EXCEPT !.type = StorageTag, !.data = d, !.layout = l] :
        d \in nested, l \in nested }

Tensors(child, nested) ==
    { [EmptyInfo(child) EXCEPT !.type = TensorTag, !.storage = st, !.dtype = d,
                               !.shape = "[2, 3]"] :
        st \in nested,
        d \in {NoDtypeStr, DtypeStr(<<"torch", "float32">>),
               DtypeStr(<<"torch", "no_such_dtype">>)} }

\* nesting depth 0, 1 and 2; every depth includes the missing descriptor
Depth0 == Leaves(Nil) \cup {NoInfo(Nil)}

Depth1 == Leaves(NoInfo(Nil)) \cup Storages(NoInfo(Nil), Depth0) \cup {NoInfo(NoInfo(Nil))}

CompositeInfos ==
    Tensors(NoInfo(NoInfo(Nil)), Depth1)
      \cup Storages(NoInfo(NoInfo(Nil)), Leaves(NoInfo(Nil)) \cup {NoInfo(NoInfo(Nil))})
      \cup { [EmptyInfo(NoInfo(NoInfo(Nil))) EXCEPT !.type = LayoutTag,
                                                     !.initial_shape = s] :
               s \in {ABSENT, "[2, 3]"} }

FlatInfos ==
    [kind : {"dict"},
     type : {ABSENT, "int", "bool", "tensor", "float"},
     value : {ABSENT, "7"},
     dtype : DtypeStrs,
     shape : {ABSENT, "[2, 3]"},
     device : {ABSENT, "cuda:0"},
     blob_path : BlobPathValues,
     storage : {NoInfo(NoInfo(Nil))},
     data : {NoInfo(NoInfo(Nil))},
     layout : {NoInfo(NoInfo(Nil))},
     initial_shape : {ABSENT}]

ArgInfos == FlatInfos \cup CompositeInfos

NoArgInfo == NoInfo(NoInfo(Nil))

\* d.get(key): None for a missing key
GetOrNone(v) == IF v = ABSENT THEN NULL ELSE v

\* d.get(key, default)
GetOr(v, default) == IF v = ABSENT THEN default ELSE v

NoValue ==
    [kind |-> "none", literal |-> "", dtype |-> "", shape |-> "", device |-> "",
     fill |-> "", buffer |-> NoBuffer, parts |-> <<>>]

Literal(v) == [NoValue EXCEPT !.kind = "literal", !.literal = v]

\* a synthesized tensor: its contents are random, its construction is kept
Synthesized(fill, torch_dtype, shape, dev) ==
    [NoValue EXCEPT !.kind = "synthesized", !.fill = fill, !.dtype = torch_dtype,
                    !.shape = shape, !.device = dev]

Loaded(buffer) == [NoValue EXCEPT !.kind = "loaded", !.buffer = buffer]

\* an object of the optional type system, built from the kinds of its parts
Composite(class, parts, torch_dtype, shape) ==
    [NoValue EXCEPT !.kind = class, !.parts = parts, !.dtype = torch_dtype,
                    !.shape = shape]

\* steps: the calls made on the way, in order: the type-handle lookup and the
\* materialization of nested descriptors
ArgReturn(branch, value, warned) ==
    [status |-> "return", exc |-> "", branch |-> branch, value |-> value,
     warned |-> warned, steps |-> <<>>]

ArgRaise(branch, x) ==
    [status |-> "raise", exc |-> x, branch |-> branch, value |-> NoValue,
     warned |-> FALSE, steps |-> <<>>]

NoArgResult ==
    [status |-> "none", exc |-> "", branch |-> "", value |-> NoValue, warned |-> FALSE,
     steps |-> <<>>]

\* the outcome r reached after the calls of pre
After(pre, r) == [r EXCEPT !.steps = pre \o @]

\* an exception of a nested call passes through the branch that made the call
Propagate(branch, r) == [r EXCEPT !.branch = branch, !.value = NoValue]

(***************************************************************************)
(* The optional type system                                                *)
(***************************************************************************)
TypeHandle == [Tensor |-> TensorTag, Storage |-> StorageTag, StridedLayout |-> LayoutTag]

NoHandle == [Tensor |-> "", Storage |-> "", StridedLayout |-> ""]

LookupStep == "_get_triton_tensor_types"

\* the body of _get_triton_tensor_types: import_module raises when the
\* module cannot be found
ImportTypes ==
    IF TRITON_KERNELS_CUSTOM_TYPES
    THEN [status |-> "return", exc |-> "", handle |-> TypeHandle]
    ELSE [status |-> "raise", exc |-> "ModuleNotFoundError", handle |-> NoHandle]

MissingDependency_Never == FALSE

\* if not TRITON_KERNELS_CUSTOM_TYPES
MissingDependency == ~TRITON_KERNELS_CUSTOM_TYPES

(***************************************************************************)
(* _create_arg_from_info                                                   *)
(***************************************************************************)
\* the dtype-category branches shared by both copies, after Case 1
SynthesizeOther(torch_dtype, shape, dev) ==
    IF IsComplex(torch_dtype)
    THEN ArgReturn("complex",
                   Synthesized("torch.complex(rand, rand)", torch_dtype, shape, dev), FALSE)
    ELSE IF NamesUint(torch_dtype)
    THEN ArgReturn("randint", Synthesized("torch.randint", torch_dtype, shape, dev), FALSE)
    ELSE ArgRaise("not_implemented", "NotImplementedError")

\* reproducer/utils.py: one Case 1 for floating point and the listed dtypes
SynthesizeTensor(info) ==
    LET torch_dtype == ResolveDtype(info.dtype)
        shape == GetOr(info.shape, "[]")
        dev == GetOr(info.device, "cpu")
    IN  IF IsFloatingPoint(torch_dtype) \/ InRandomList(torch_dtype)
        THEN ArgReturn("random_", Synthesized("random_", torch_dtype, shape, dev), FALSE)
        ELSE SynthesizeOther(torch_dtype, shape, dev)

\* repro1.py: float8_e4m3fn is generated as float32 and cast down
repro1_SynthesizeTensor(info) ==
    LET torch_dtype == ResolveDtype(info.dtype)
        shape == GetOr(info.shape, "[]")
        dev == GetOr(info.device, "cpu")
    IN  IF IsFloatingPoint(torch_dtype)
        THEN IF torch_dtype = "float8_e4m3fn"
             THEN ArgReturn("rand_then_cast",
                            Synthesized("torch.rand(float32).to", torch_dtype, shape, dev),
                            FALSE)
             ELSE ArgReturn("random_", Synthesized("random_", torch_dtype, shape, dev), FALSE)
        ELSE IF InRandomList(torch_dtype)
        THEN ArgReturn("random_", Synthesized("random_", torch_dtype, shape, dev), FALSE)
        ELSE SynthesizeOther(torch_dtype, shape, dev)

\* the outcome of load_tensor handed on by the caller
FromLoad(lt) ==
    IF lt.status = "return"
    THEN ArgReturn("blob", Loaded(lt.buffer), FALSE)
    ELSE ArgRaise("blob", lt.exc)

\* Tensor(storage=storage, shape=..., shape_max=..., dtype=torch_dtype): the
\* dtype lookup has no handler here
BuildTensor(info, storage) ==
    IF storage.status = "raise" THEN Propagate("Tensor", storage)
    ELSE IF GetDtypeAttr(info.dtype) = ABSENT
    THEN After(storage.steps, ArgRaise("Tensor", "AttributeError"))
    ELSE After(storage.steps,
               ArgReturn("Tensor",
                         Composite("Tensor", <<storage.value.kind>>,
                                   GetDtypeAttr(info.dtype), GetOrNone(info.shape)),
                         storage.warned))

\* Storage(data=data, layout=layout): layout is materialized after data
BuildStorage(data, layout) ==
    IF data.status = "raise" THEN Propagate("Storage", data)
    ELSE IF layout.status = "raise"
    THEN After(data.steps, Propagate("Storage", layout))
    ELSE After(data.steps \o layout.steps,
               ArgReturn("Storage",
                         Composite("Storage", <<data.value.kind, layout.value.kind>>, "", ""),
                         data.warned \/ layout.warned))

Unhandled_Raises == ArgRaise("unhandled", "ValueError")

\* the last else: print("Warning: Unhandled argument type ...") and return None
Unhandled == ArgReturn("unhandled", NoValue, TRUE)

\* reproducer/utils.py: a tensor descriptor is always synthesized
RECURSIVE _create_arg_from_info(_, _)
_create_arg_from_info(files, info) ==
    IF info.kind # "dict"
    THEN ArgRaise("", "AttributeError")
    ELSE IF info.type \in {"int", "bool"}
    THEN ArgReturn("literal", Literal(GetOrNone(info.value)), FALSE)
    ELSE IF info.type = "tensor"
    THEN SynthesizeTensor(info)
    ELSE IF info.type = TensorTag
    THEN IF MissingDependency
         THEN ArgRaise("missing_dependency", "RuntimeError")
         ELSE IF ImportTypes.status = "raise"
         THEN After(<<LookupStep>>, ArgRaise("Tensor", ImportTypes.exc))
         ELSE After(<<LookupStep, "storage">>,
                    BuildTensor(info, _create_arg_from_info(files, info.storage)))
    ELSE IF info.type = StorageTag
    THEN IF MissingDependency
         THEN ArgRaise("missing_dependency", "RuntimeError")
         ELSE IF ImportTypes.status = "raise"
         THEN After(<<LookupStep>>, ArgRaise("Storage", ImportTypes.exc))
         ELSE LET data == After(<<"data">>, _create_arg_from_info(files, info.data))
                  layout == After(<<"layout">>, _create_arg_from_info(files, info.layout))
              IN  After(<<LookupStep>>, BuildStorage(data, layout))
    ELSE IF info.type = LayoutTag
    THEN IF MissingDependency
         THEN ArgRaise("missing_dependency", "RuntimeError")
         ELSE IF ImportTypes.status = "raise"
         THEN After(<<LookupStep>>, ArgRaise("StridedLayout", ImportTypes.exc))
         ELSE After(<<LookupStep>>,
                    ArgReturn("StridedLayout",
                              Composite("StridedLayout", <<>>, "",
                                        GetOrNone(info.initial_shape)),
                              FALSE))
    ELSE Unhandled

\* repro1.py: a tensor descriptor with a blob_path is loaded; the copy has no
\* branch for the composite tags
repro1_create_arg_from_info(files, info) ==
    IF info.kind # "dict"
    THEN ArgRaise("", "AttributeError")
    ELSE IF info.type \in {"int", "bool"}
    THEN ArgReturn("literal", Literal(GetOrNone(info.value)), FALSE)
    ELSE IF info.type = "tensor"
    THEN IF info.blob_path.kind = "path"
         THEN FromLoad(repro1_load_tensor(files, info.blob_path.path,
                                          GetOrNone(info.device)))
         ELSE repro1_SynthesizeTensor(info)
    ELSE Unhandled

CreateArgFromInfo(which, files, info) ==
    IF which = "repro1"
    THEN repro1_create_arg_from_info(files, info)
    ELSE _create_arg_from_info(files, info)

ArgIdle ==
    /\ arg_info = NoArgInfo
    /\ arg_result = NoArgResult
    /\ TRITON_KERNELS_CUSTOM_TYPES = FALSE

(***************************************************************************)
(* create_args_from_json.  The decoded document is a dict, a list or       *)
(* another JSON value; a dict's extracted_args are its (name, descriptor)  *)
(* items in document order (a missing key reads as the empty dict).        *)
(***************************************************************************)
\* most arguments of one launch
MaxArgs == 2

\* most elements of a top-level array
MaxItems == 2

\* the descriptors arguments are drawn from: a literal, a tensor, a tensor
\* of a dtype no branch handles, a layout of the optional type system, an
\* unrecognized tag and a descriptor without type
ArgChoices ==
    { [EmptyInfo(NoInfo(NoInfo(Nil))) EXCEPT !.type = "int", !.value = "7"],
      [EmptyInfo(NoInfo(NoInfo(Nil))) EXCEPT !.type = "tensor",
                                             !.dtype = DtypeStr(<<"torch", "float32">>)],
      [EmptyInfo(NoInfo(NoInfo(Nil))) EXCEPT !.type = "tensor",
                                             !.dtype = DtypeStr(<<"torch", "qint8">>)],
      [EmptyInfo(NoInfo(NoInfo(Nil))) EXCEPT !.type = LayoutTag],
      [EmptyInfo(NoInfo(NoInfo(Nil))) EXCEPT !.type = "float"],
      EmptyInfo(NoInfo(NoInfo(Nil))) }

ArgNames == <<"a", "b", "c", "d">>

\* the items of extracted_args: the i-th key is ArgNames[i]
ArgItems ==
    UNION { { [i \in 1..n |-> [name |-> ArgNames[i], info |-> f[i]]] :
                f \in [1..n -> ArgChoices] } : n \in 0..MaxArgs }

JsonDict(grid, items) == [kind |-> "dict", grid |-> grid, extracted_args |-> items]

\* a JSON value that is no dict: a list, a string, a number or null
JsonOther(k) == [kind |-> k, grid |-> ABSENT, extracted_args |-> <<>>]

JsonElements ==
    { JsonDict(g, items) : g \in {ABSENT, "[4]"}, items \in ArgItems }
      \cup { JsonOther(k) : k \in {"list", "str", "number", "null"} }

\* a top-level value: items are the elements of a list
TopLevel(e, items) ==
    [kind |-> e.kind, grid |-> e.grid, extracted_args |-> e.extracted_args,
     items |-> items]

\* documents: every element as the top level, and arrays of 0..MaxItems
\* copies of an element
JsonDocuments ==
    { TopLevel(e, <<>>) : e \in JsonElements }
      \cup { TopLevel(JsonOther("list"), [i \in 1..n |-> e]) :
               e \in JsonElements, n \in 0..MaxItems }

NoJson == TopLevel(JsonOther("null"), <<>>)

\* args_dict as (name, value) items in insertion order; materialized holds
\* the names _create_arg_from_info was called for
ArgsReturn(grid, args_dict, names) ==
    [status |-> "return", exc |-> "", msg |-> "", grid |-> grid,
     args_dict |-> args_dict, materialized |-> names]

\* print(...) and sys.exit(1)
ArgsExit(msg) ==
    [status |-> "exit", exc |-> "SystemExit", msg |-> msg, grid |-> ABSENT,
     args_dict |-> <<>>, materialized |-> <<>>]

ArgsRaise(x, names) ==
    [status |-> "raise", exc |-> x, msg |-> "", grid |-> ABSENT,
     args_dict |-> <<>>, materialized |-> names]

NoArgsResult ==
    [status |-> "none", exc |-> "", msg |-> "", grid |-> ABSENT,
     args_dict |-> <<>>, materialized |-> <<>>]

\* for arg_name, arg_info in extracted_args.items(): the first exception
\* of _create_arg_from_info ends the loop and the call
RECURSIVE MaterializeArgs(_, _, _, _, _, _)
MaterializeArgs(which, files, grid, items, i, args_dict) ==
    IF i > Len(items)
    THEN ArgsReturn(grid, args_dict, [j \in 1..Len(items) |-> items[j].name])
    ELSE LET r == CreateArgFromInfo(which, files, items[i].info)
         IN  IF r.status = "raise"
             THEN ArgsRaise(r.exc, [j \in 1..i |-> items[j].name])
             ELSE MaterializeArgs(which, files, grid, items, i + 1,
                                  Append(args_dict,
                                         [name |-> items[i].name, value |-> r.value,
                                          warned |-> r.warned]))

\* lines 41-48, on the value that passed the shape checks: data.get raises
\* AttributeError when that value is no dict
ArgsOfObject(which, files, obj) ==
    IF obj.kind # "dict"
    THEN ArgsRaise("AttributeError", <<>>)
    ELSE MaterializeArgs(which, files, GetOr(obj.grid, "[]"), obj.extracted_args, 1, <<>>)

\* the same code in reproducer/utils.py and in repro1.py; each copy calls
\* its own _create_arg_from_info
create_args_from_json(which, files, d) ==
    IF d.kind = "list"
    THEN IF Len(d.items) # 1
         THEN ArgsExit("Expected a list with one element")
         ELSE ArgsOfObject(which, files, d.items[1])
    ELSE IF d.kind # "dict"
    THEN ArgsExit("Expected list or dict")
    ELSE ArgsOfObject(which, files, d)

CreateArgsIdle == json_data = NoJson /\ args_result = NoArgsResult

(***************************************************************************)
(* The type-handle cache.  _get_triton_tensor_types is wrapped by          *)
(* lru_cache(maxsize=1): a call probes the cache, on a miss runs the body  *)
(* and then stores the result.  lru_cache keeps its own data coherent but  *)
(* holds no lock while the body runs, so threads are interleaved between   *)
(* the probe, the body and the store.                                      *)
(***************************************************************************)
MaxThreads == 2

\* most composite descriptors one thread builds, one after the other
MaxCalls == 2

Threads == 1..MaxThreads

CacheHit_Never(c) == FALSE

\* the key of the argument-less call is in the cache
CacheHit(c) == c # NoHandle

CacheIdle ==
    /\ thread_pc = <<>>
    /\ calls_made = <<>>
    /\ cache = NoHandle
    /\ body_runs = <<>>
    /\ received = <<>>

(***************************************************************************)
(* The SASS source-mapping extractor, extract_sass_mappings, as its        *)
(* contract describes it (a sequential scan with a pending source          *)
(* location) and as test_sass_parsing.py and test_sass_integration.py      *)
(* exercise it.                                                            *)
(***************************************************************************)
\* most lines of a SASS text
MaxLines == 4

InternalFile == ".nv_debug_ptx_txt"

\* //## File "<file>", line <n>
Annotation(file, n) == [kind |-> "annotation", file |-> file, line |-> n]

\* a line with an instruction address, /*0010*/ ...
CodeLine == [kind |-> "code", file |-> "", line |-> 0]

\* any other line, such as the Function: header
OtherLine == [kind |-> "other", file |-> "", line |-> 0]

SassLines ==
    {Annotation("/path/to/source.py", 100), Annotation("/path/to/source.py", 105),
     Annotation("/path/to/other.py", 100), Annotation(InternalFile, 19),
     CodeLine, OtherLine}

SassContents == UNION { [1..n -> SassLines] : n \in 0..MaxLines }

\* str(line_number)
DecimalString(n) == <<"1", "2", "3", "4", "5", "6", "7", "8", "9">>[n]

NoLocation == [file |-> "", line |-> 0]

IsInternal_Never(file) == FALSE

\* the annotation names the placeholder file of the PTX text
IsInternal(file) == file = InternalFile

\* the pending source location after the line l
NextLocation(pending, l) ==
    IF l.kind = "annotation" /\ ~IsInternal(l.file)
    THEN [file |-> l.file, line |-> l.line]
    ELSE pending

\* the entry recorded for the code line n
MappingEntry(pending, n) ==
    [file |-> pending.file, line |-> pending.line, column |-> 0, sass_line |-> n]

\* the scan from line n on: a code line is recorded under its own line
\* number when a location is pending
RECURSIVE ScanSass(_, _, _, _)
ScanSass(content, n, pending, mappings) ==
    IF n > Len(content)
    THEN mappings
    ELSE IF content[n].kind = "code" /\ pending # NoLocation
    THEN ScanSass(content, n + 1, pending,
                  (DecimalString(n) :> MappingEntry(pending, n)) @@ mappings)
    ELSE ScanSass(content, n + 1, NextLocation(pending, content[n]), mappings)

extract_sass_mappings(content) == ScanSass(content, 1, NoLocation, <<>>)

SassIdle == sass_content = <<>> /\ sass_mappings = <<>>

(***************************************************************************)
(* extract_utility_functions.  The two modules are imported from their     *)
(* files when the function runs; a module is what its file defines: the    *)
(* names of its functions and whether it assigns                           *)
(* TRITON_KERNELS_CUSTOM_TYPES at the start of a line.                     *)
(***************************************************************************)
Module(defs, constant) == [defs |-> defs, constant |-> constant]

NoModule == Module({}, FALSE)

\* the functions to extract from utils.py, in order
utils_functions ==
    <<"_get_triton_tensor_types", "create_args_from_json_file", "create_args_from_json",
      "_apply_stride_and_offset", "_create_base_tensor", "_create_tensor",
      "_create_arg_from_info">>

\* the functions to extract from load_tensor.py
load_tensor_functions == <<"load_tensor">>

\* reproducer/utils.py as it stands: its four functions and the constant
UtilsAsShipped ==
    Module({"create_args_from_json", "_get_triton_tensor_types", "_create_arg_from_info",
            "determine_output_paths"}, TRUE)

\* tools/load_tensor.py as it stands
LoadTensorAsShipped == Module({"load_tensor"}, FALSE)

\* the files the function may find: utils.py with any of the listed
\* functions defined, load_tensor.py with or without load_tensor
UtilsModules ==
    { Module(d \cup {"determine_output_paths"}, c) :
        d \in SUBSET { utils_functions[i] : i \in 1..Len(utils_functions) },
        c \in BOOLEAN }

LoadTensorModules == { Module(d, FALSE) : d \in SUBSET {"load_tensor"} }

\* the chunk _generate_imports returns
ImportsChunk == "import ...; import torch"

\* the lines of the TRITON_KERNELS_CUSTOM_TYPES statement
ConstantChunk == "TRITON_KERNELS_CUSTOM_TYPES = (...)"

ExtractReturn(code) == [status |-> "return", exc |-> "", missing |-> "", code |-> code]

\* getattr(module, func_name) of a name the module does not define
ExtractRaise(name) ==
    [status |-> "raise", exc |-> "AttributeError", missing |-> name, code |-> <<>>]

NoExtract == [status |-> "none", exc |-> "", missing |-> "", code |-> <<>>]

\* getattr(module, func_name) succeeds
Defined(module, func_name) == func_name \in module.defs

\* the listed names the module does not define, by position
Undefined(module, names) == { i \in 1..Len(names) : ~Defined(module, names[i]) }

\* for func_name in names: getattr, inspect.getsource, append; the first
\* undefined name raises
ExtractFunctions(module, names, code) ==
    IF Undefined(module, names) # {}
    THEN ExtractRaise(names[Min(Undefined(module, names))])
    ELSE ExtractReturn(code \o names)

ExtractIdle ==
    /\ utils_module = NoModule
    /\ load_tensor_module = NoModule
    /\ extracted_code = <<>>
    /\ extract_result = NoExtract

(***************************************************************************)
(* reproduce.  The trace file holds the events; the compilation event the  *)
(* correlator returns carries the payload comp_event.                      *)
(***************************************************************************)
ReproEvents ==
    {MkEvent("launch", ABSENT, Meta("h1")), MkEvent("launch", ABSENT, NoMeta),
     MkEvent("compilation", "h1", NoMeta), MkEvent("other", ABSENT, NoMeta)}

ReproEventLists == UNION { [1..n -> ReproEvents] : n \in 0..MaxEvents }

\* a resolvable payload, one without kernel name, one without file path and
\* a null payload
ReproCompEvents ==
    { [payload |-> p, stack |-> ABSENT] :
        p \in {Payload(PySource(Str(<<>>), "kernel.py"), Metadata("add_kernel")),
               Payload(PySource(Str(<<>>), "kernel.py"), Metadata("")),
               Payload(PySource(Str(<<>>), ABSENT), Metadata("add_kernel")),
               NoPayload("null")} }

\* the fields of the ContextBundle that reproduce reads
ContextBundle(kernel_info, launch_event) ==
    [status |-> "return", exc |-> "", function_name |-> kernel_info.function_name,
     raw_launch_event |-> launch_event]

BundleRaise(x) ==
    [status |-> "raise", exc |-> x, function_name |-> ABSENT, raw_launch_event |-> NoEvent]

NoBundle ==
    [status |-> "none", exc |-> "", function_name |-> ABSENT, raw_launch_event |-> NoEvent]

\* the exceptions of the correlator and of get_kernel_info pass through
build_context_bundle(correlated, kernel_info) ==
    IF correlated.status = "raise"
    THEN BundleRaise(correlated.exc)
    ELSE IF kernel_info.status = "raise"
    THEN BundleRaise(kernel_info.exc)
    ELSE ContextBundle(kernel_info, correlated.launch)

BundleFailed_Never(bundle) == FALSE

\* the exception of build_context_bundle ends reproduce
BundleFailed(bundle) == bundle.status = "raise"

\* output_directory = Path(out_dir) / kernel_name
OutputDirectory(kernel_name) == <<"out_dir", kernel_name>>

\* temp_json_path = output_directory / "repro_context_<timestamp>.json"
TempJsonPath(kernel_name) == OutputDirectory(kernel_name) \o <<"repro_context.json">>

\* the calls of reproduce, in the order of the code
ReproduceOrder ==
    <<"load_ndjson", "build_context_bundle", "determine_output_paths",
      "save_prettified_json", "load_template_code">>

ReproIdle ==
    /\ context_bundle = NoBundle
    /\ made_dirs = {}
    /\ written_files = {}
    /\ steps_done = <<>>

ExtIdle == CreateArgsIdle /\ CacheIdle /\ ReproIdle /\ ExtractIdle /\ SassIdle

(***************************************************************************)
(* Correlator specification                                                *)
(***************************************************************************)
CorrIdle == events = <<>> /\ line_index = None /\ result = NoResult

InitCorrelate ==
    /\ pc = "correlate"
    /\ ExtIdle
    /\ events \in EventLists
    /\ line_index \in LineIndexes
    /\ result = NoResult
    /\ KernelInfoIdle
    /\ LoaderIdle
    /\ ArgIdle

Correlate ==
    /\ pc = "correlate"
    /\ result' = get_launch_and_compilation_events(events, line_index)
    /\ pc' = "done"
    /\ UNCHANGED <<events, line_index, kiVars, ltVars, argVars, extVars>>

NextCorrelate == Correlate

SpecCorrelate == InitCorrelate /\ [][NextCorrelate]_vars

(***************************************************************************)
(* Correlator properties.  They are stated over positions of the event     *)
(* list, independently of the list comprehension of the code.              *)
(***************************************************************************)
InBounds == line_index # None /\ line_index[1] \in 0..(Len(events) - 1)

IndexedEvent == events[line_index[1] + 1]

\* the indexed event is a launch carrying a non-empty compilation hash
LaunchWithHash ==
    /\ InBounds
    /\ IndexedEvent.event_type = "launch"
    /\ IndexedEvent.compilation_metadata.kind = "dict"
    /\ IndexedEvent.compilation_metadata.hash \notin {ABSENT, NULL, ""}

LaunchHash == IndexedEvent.compilation_metadata.hash

CompilationPositions(h) ==
    { j \in 1..Len(events) :
        events[j].event_type = "compilation" /\ events[j].hash = h }

\* C1: a launch whose hash is shared by two or more compilation events
\* ends in the ambiguity error (RuntimeError) and nothing is returned.
C1_AmbiguityFails ==
    (pc = "done" /\ LaunchWithHash /\ Cardinality(CompilationPositions(LaunchHash)) >= 2)
        => /\ result.status = "raise"
           /\ result.exc = "RuntimeError"
           /\ result.msg = "Expected 1 compilation event"
           /\ result.comp = NoEvent

C1_Witness ==
    /\ pc = "done"
    /\ LaunchWithHash
    /\ Cardinality(CompilationPositions(LaunchHash)) >= 2
    /\ result.status = "raise"

\* C2: a launch whose hash is carried by exactly one compilation event
\* returns exactly (events[index], that compilation event), wherever the
\* compilation event stands and whatever else the list holds.
C2_UniqueMatchReturned ==
    (pc = "done" /\ LaunchWithHash /\ Cardinality(CompilationPositions(LaunchHash)) = 1)
        => \E j \in CompilationPositions(LaunchHash) :
               result = Return(IndexedEvent, events[j])

\* the compilation event stands after the launch, and another event carries
\* the same hash without being a compilation event
C2_Witness ==
    /\ pc = "done"
    /\ LaunchWithHash
    /\ Cardinality(CompilationPositions(LaunchHash)) = 1
    /\ \E j \in CompilationPositions(LaunchHash) : j > line_index[1] + 1
    /\ \E k \in 1..Len(events) :
           events[k].event_type # "compilation" /\ events[k].hash = LaunchHash
    /\ result.status = "return"

\* C3 (as claimed): an index that is None or outside 0..len(events)-1,
\* negative integers included, ends in an index error (the ValueError of
\* the bounds check, or Python's IndexError), returns no pair and selects
\* no event of the list.
C3_OutOfBoundsRejected ==
    (pc = "done" /\ ~InBounds)
        => /\ result.status = "raise"
           /\ result.msg \in {"Invalid line_index", "list index out of range"}

\* C4: an in-bounds index whose event is not tagged launch ends in the type
\* error, whatever hash it carries and whatever the list holds.
C4_NonLaunchRejected ==
    (pc = "done" /\ InBounds /\ IndexedEvent.event_type # "launch")
        => result = Raise("ValueError", "not a launch event")

\* the rejected event is a compilation event whose own hash is in the list
C4_Witness ==
    /\ pc = "done"
    /\ InBounds
    /\ IndexedEvent.event_type = "compilation"
    /\ IndexedEvent.hash = "h1"
    /\ \E k \in 1..Len(events) : events[k].event_type = "other"
    /\ result.status = "raise"

\* C5: a launch whose hash no compilation event carries ends in the
\* not-found error, even when launch or other events carry that hash.
C5_NoMatchNotFound ==
    (pc = "done" /\ LaunchWithHash /\ CompilationPositions(LaunchHash) = {})
        => result = Raise("RuntimeError", "Could not find compilation event")

C5_Witness ==
    /\ pc = "done"
    /\ LaunchWithHash
    /\ CompilationPositions(LaunchHash) = {}
    /\ \E k \in 1..Len(events) :
           events[k].event_type = "other" /\ events[k].hash = LaunchHash
    /\ IndexedEvent.hash = LaunchHash
    /\ result.status = "raise"

(***************************************************************************)
(* Kernel info specification                                               *)
(***************************************************************************)
InitKernelInfo ==
    /\ pc = "get_kernel_info"
    /\ ExtIdle
    /\ comp_event \in CompEvents
    /\ kinfo = NoKernelInfo
    /\ CorrIdle
    /\ LoaderIdle
    /\ ArgIdle

GetKernelInfo ==
    /\ pc = "get_kernel_info"
    /\ kinfo' = get_kernel_info(comp_event)
    /\ pc' = "done"
    /\ UNCHANGED <<comp_event, corrVars, ltVars, argVars, extVars>>

NextKernelInfo == GetKernelInfo

SpecKernelInfo == InitKernelInfo /\ [][NextKernelInfo]_vars

\* payload.python_source.file_path and payload.metadata.name as the claim
\* reads them: a missing or null dict on the way makes the field absent
FieldFilePath ==
    IF comp_event.payload.kind = "dict" /\ comp_event.payload.python_source.kind = "dict"
    THEN comp_event.payload.python_source.file_path
    ELSE ABSENT

FieldName ==
    IF comp_event.payload.kind = "dict" /\ comp_event.payload.metadata.kind = "dict"
    THEN comp_event.payload.metadata.name
    ELSE ABSENT

FieldText ==
    IF comp_event.payload.python_source.code.kind = "str"
    THEN comp_event.payload.python_source.code.text
    ELSE <<>>

BothResolved ==
    FieldFilePath \notin {ABSENT, NULL, ""} /\ FieldName \notin {ABSENT, NULL, ""}

MarkerAt(text, i) ==
    /\ i + Len(jit_marker) <= Len(text)
    /\ \A j \in 1..Len(jit_marker) : text[i + j] = jit_marker[j]

CodeIsText == comp_event.payload.python_source.code.kind # "null"

\* C6 (as claimed): whenever file path or function name is absent or empty,
\* a missing or null payload, python_source or metadata included,
\* get_kernel_info ends in the resolution error (RuntimeError); a KernelInfo
\* is returned only when both are present.
C6_UnresolvedIsRuntimeError ==
    (pc = "done" /\ CodeIsText)
        => /\ ~BothResolved => (kinfo.status = "raise" /\ kinfo.exc = "RuntimeError")
           /\ kinfo.status = "return" => BothResolved

\* C7: with file path and function name present, source_code is the suffix
\* of the source text that starts at the first marker, and the whole text
\* when it holds no marker.
C7_SourceFromFirstMarker ==
    (pc = "done" /\ BothResolved /\ CodeIsText)
        => /\ kinfo.status = "return"
           /\ \E k \in 0..Len(FieldText) :
                /\ kinfo.source_code = [i \in 1..(Len(FieldText) - k) |-> FieldText[k + i]]
                /\ \A i \in 0..(k - 1) : ~MarkerAt(FieldText, i)
                /\ \/ MarkerAt(FieldText, k)
                   \/ k = 0 /\ \A i \in 0..Len(FieldText) : ~MarkerAt(FieldText, i)

\* two markers with text before the first one: the cut is at the first
C7_Witness ==
    /\ pc = "done"
    /\ BothResolved
    /\ kinfo.status = "return"
    /\ Cardinality(Occurrences(FieldText, jit_marker)) = 2
    /\ Len(kinfo.source_code) < Len(FieldText)
    /\ Len(kinfo.source_code) > Len(jit_marker) + 1

(***************************************************************************)
(* Blob loader specification: one file, one call                           *)
(***************************************************************************)
\* the digests file names claim: those of the payloads and of their gzip streams
Bases == { Blake2b(b) : b \in Contents \cup { Gzip(c) : c \in Contents } }

FileNames == { Name(d, x) : d \in Bases, x \in ExtLists }

InitLoad ==
    /\ pc = "load_tensor"
    /\ ExtIdle
    /\ impl \in Impls
    /\ tensor_file_path \in FileNames
    /\ \E raw \in RawFiles, exists \in BOOLEAN :
          fs = IF exists THEN [n \in {tensor_file_path} |-> raw] ELSE NoFiles
    /\ device \in Devices
    /\ lt_result = NoLoad
    /\ lt_prev = NoLoad
    /\ CorrIdle
    /\ KernelInfoIdle
    /\ ArgIdle

Load ==
    /\ pc = "load_tensor"
    /\ lt_result' = LoadTensor(impl, fs, tensor_file_path, device)
    /\ pc' = "done"
    /\ UNCHANGED <<impl, fs, tensor_file_path, device, lt_prev, corrVars, kiVars, argVars, extVars>>

NextLoad == Load

SpecLoad == InitLoad /\ [][NextLoad]_vars

(***************************************************************************)
(* Blob loader specification: the same payload stored as D.bin and as      *)
(* D.bin.gz, loaded one after the other                                    *)
(***************************************************************************)
PlainName(b) == Name(Blake2b(b), <<".bin">>)

GzName(b) == Name(Blake2b(b), <<".bin", ".gz">>)

PairFiles(b) ==
    [n \in {PlainName(b), GzName(b)} |-> IF n = PlainName(b) THEN b ELSE Gzip(b)]

InitLoadPair ==
    /\ pc = "load_plain"
    /\ ExtIdle
    /\ impl \in Impls
    /\ \E b \in Contents : fs = PairFiles(b) /\ tensor_file_path = PlainName(b)
    /\ device \in Devices
    /\ lt_result = NoLoad
    /\ lt_prev = NoLoad
    /\ CorrIdle
    /\ KernelInfoIdle
    /\ ArgIdle

LoadPlain ==
    /\ pc = "load_plain"
    /\ lt_result' = LoadTensor(impl, fs, tensor_file_path, device)
    /\ pc' = "load_gz"
    /\ UNCHANGED <<impl, fs, tensor_file_path, device, lt_prev, corrVars, kiVars, argVars, extVars>>

LoadCompressed ==
    /\ pc = "load_gz"
    /\ tensor_file_path' = Name(tensor_file_path.base, <<".bin", ".gz">>)
    /\ lt_prev' = lt_result
    /\ lt_result' = LoadTensor(impl, fs, tensor_file_path', device)
    /\ pc' = "done"
    /\ UNCHANGED <<impl, fs, device, corrVars, kiVars, argVars, extVars>>

NextLoadPair == LoadPlain \/ LoadCompressed

SpecLoadPair == InitLoadPair /\ [][NextLoadPair]_vars

(***************************************************************************)
(* Blob loader properties                                                  *)
(***************************************************************************)
FileExists == tensor_file_path \in DOMAIN fs

RawBytes == fs[tensor_file_path]

\* the file is named as a compressed blob
CompressedName ==
    /\ Len(tensor_file_path.exts) >= 2
    /\ SubSeq(tensor_file_path.exts, Len(tensor_file_path.exts) - 1,
              Len(tensor_file_path.exts)) = <<".bin", ".gz">>

Decompressable == CompressedName => GunzipOk(RawBytes)

DecompressedBytes == IF CompressedName THEN Gunzip(RawBytes) ELSE RawBytes

\* the digest the running copy reads off the file name
FilenameDigest ==
    IF impl = "tritonparse" /\ CompressedName
    THEN ReplaceBinGz(tensor_file_path)
    ELSE Stem(tensor_file_path)

DigestDiffers == FilenameDigest # HexDigest(Blake2b(DecompressedBytes))

StepBefore(steps, first, second) ==
    \A i \in 1..Len(steps) :
        steps[i] = second => \E j \in 1..(i - 1) : steps[j] = first

\* C8: an existing blob file, compressed or not, whose file name digest
\* differs from the BLAKE2b digest of its decompressed bytes ends in the
\* hash-mismatch error (ValueError) and yields no buffer; torch.load is
\* reached only after the digest comparison, and only when it succeeded.
C8_MismatchNeverLoads ==
    pc = "done" =>
        /\ (FileExists /\ Decompressable /\ DigestDiffers)
              => /\ lt_result.status = "raise"
                 /\ lt_result.exc = "ValueError"
                 /\ lt_result.buffer = NoBuffer
        /\ (\E i \in 1..Len(lt_result.steps) : lt_result.steps[i] = "torch.load")
              => /\ StepBefore(lt_result.steps, "compare", "torch.load")
                 /\ lt_result.computed_hash = lt_result.expected_hash
                 /\ ~DigestDiffers

\* a compressed blob that would deserialize, stored under another digest
C8_Witness ==
    /\ pc = "done"
    /\ impl = "tritonparse"
    /\ FileExists
    /\ CompressedName
    /\ GunzipOk(RawBytes)
    /\ Deserializable(DecompressedBytes)
    /\ DigestDiffers
    /\ lt_result.exc = "ValueError"

\* C9 (as claimed): a payload B with digest D that loads from D.bin loads
\* from D.bin.gz with the same outcome: the same buffer is returned, in
\* both calls the expected hash is D and the digest is computed over the
\* decompressed bytes B.
C9_CompressionTransparent ==
    (pc = "done" /\ lt_prev.status = "return")
        => /\ lt_result.status = "return"
           /\ lt_result.buffer = lt_prev.buffer
           /\ lt_prev.expected_hash = HexDigest(tensor_file_path.base)
           /\ lt_result.expected_hash = HexDigest(tensor_file_path.base)
           /\ lt_result.computed_hash = lt_prev.computed_hash

(***************************************************************************)
(* Argument synthesizer specification                                      *)
(***************************************************************************)
InitArgs ==
    /\ pc = "create_arg"
    /\ ExtIdle
    /\ impl \in Impls
    /\ fs = BlobStore
    /\ arg_info \in ArgInfos
    /\ arg_result = NoArgResult
    /\ TRITON_KERNELS_CUSTOM_TYPES \in BOOLEAN
    /\ tensor_file_path = NoHash
    /\ device = NULL
    /\ lt_result = NoLoad
    /\ lt_prev = NoLoad
    /\ CorrIdle
    /\ KernelInfoIdle

CreateArg ==
    /\ pc = "create_arg"
    /\ arg_result' = CreateArgFromInfo(impl, fs, arg_info)
    /\ pc' = "done"
    /\ UNCHANGED <<arg_info, TRITON_KERNELS_CUSTOM_TYPES, ltVars, corrVars, kiVars, extVars>>

NextArgs == CreateArg

SpecArgs == InitArgs /\ [][NextArgs]_vars

(***************************************************************************)
(* Argument synthesizer properties                                         *)
(***************************************************************************)
\* the descriptor is a tensor that names a blob
TensorWithBlob == arg_info.type = "tensor" /\ arg_info.blob_path.kind = "path"

\* what the copy's own load_tensor does for the descriptor's path and device
DirectLoad ==
    LoadTensor(impl, fs, arg_info.blob_path.path,
               IF arg_info.device = ABSENT THEN NULL ELSE arg_info.device)

\* C10 (as claimed): a tensor descriptor with a non-empty blob_path yields
\* exactly what load_tensor returns or raises for that path, and none of the
\* dtype-category branches is taken.
C10_BlobPathDelegates ==
    (pc = "done" /\ TensorWithBlob)
        => /\ arg_result.branch = "blob"
           /\ arg_result.status = DirectLoad.status
           /\ arg_result.exc = DirectLoad.exc
           /\ arg_result.value.buffer = DirectLoad.buffer
           /\ arg_result.value.kind # "synthesized"

\* the descriptor is a tensor that names no blob
TensorWithoutBlob ==
    arg_info.kind = "dict" /\ arg_info.type = "tensor" /\ arg_info.blob_path.kind # "path"

\* the torch dtype the descriptor's dtype string names; ABSENT when the
\* string is missing or its last component is no attribute of torch
NamedDtype ==
    IF arg_info.dtype.kind = "str"
          /\ arg_info.dtype.parts[Len(arg_info.dtype.parts)] \in TorchDtypes
    THEN arg_info.dtype.parts[Len(arg_info.dtype.parts)]
    ELSE ABSENT

\* floating point, signed integers, uint8, bool, complex, wider unsigned
SupportedDtypes ==
    {"float16", "float32", "float64", "float8_e4m3fn", "int8", "int16", "int32",
     "int64", "uint8", "bool", "complex64", "complex128", "uint32"}

\* C11 (as claimed): a tensor descriptor without a blob reference whose dtype
\* is in no supported category, a missing or unknown dtype name included,
\* ends in NotImplementedError and yields no buffer; no default dtype is
\* substituted.
C11_UnsupportedDtypeFails ==
    (pc = "done" /\ TensorWithoutBlob /\ NamedDtype \notin SupportedDtypes)
        => /\ arg_result.status = "raise"
           /\ arg_result.exc = "NotImplementedError"
           /\ arg_result.value = NoValue

CompositeTags == {TensorTag, StorageTag, LayoutTag}

\* C13: in reproducer/utils.py, when triton_kernels.tensor was not found,
\* a descriptor with a composite tag ends in RuntimeError before the
\* type-handle lookup is called and before any nested descriptor is
\* materialized, and nothing is constructed.
C13_MissingDependencyFailsFirst ==
    (pc = "done" /\ impl = "tritonparse" /\ ~TRITON_KERNELS_CUSTOM_TYPES
       /\ arg_info.type \in CompositeTags)
        => /\ arg_result.status = "raise"
           /\ arg_result.exc = "RuntimeError"
           /\ arg_result.steps = <<>>
           /\ arg_result.value = NoValue
           /\ ~arg_result.warned

\* a Tensor descriptor whose storage holds a tensor and a layout
C13_Witness ==
    /\ pc = "done"
    /\ impl = "tritonparse"
    /\ ~TRITON_KERNELS_CUSTOM_TYPES
    /\ arg_info.type = TensorTag
    /\ arg_info.storage.kind = "dict"
    /\ arg_info.storage.type = StorageTag
    /\ arg_info.storage.data.kind = "dict"
    /\ arg_info.storage.layout.kind = "dict"
    /\ arg_result.exc = "RuntimeError"

\* C17 (as claimed): a tensor descriptor without a blob reference whose
\* dtype is float8_e4m3fn is generated as float32 and cast down, never
\* filled in place with random_(); both copies of the synthesizer take the
\* same branch for every tensor descriptor without a blob reference.
C17_NarrowFloatCastDown ==
    (pc = "done" /\ TensorWithoutBlob)
        => /\ NamedDtype = "float8_e4m3fn"
                => /\ arg_result.branch = "rand_then_cast"
                   /\ arg_result.value.fill # "random_"
           /\ impl = "tritonparse"
                => arg_result.branch = repro1_create_arg_from_info(fs, arg_info).branch

(***************************************************************************)
(* create_args_from_json specification                                     *)
(***************************************************************************)
InitCreateArgs ==
    /\ pc = "create_args"
    /\ impl \in Impls
    /\ fs = BlobStore
    /\ TRITON_KERNELS_CUSTOM_TYPES \in BOOLEAN
    /\ json_data \in JsonDocuments
    /\ args_result = NoArgsResult
    /\ arg_info = NoArgInfo
    /\ arg_result = NoArgResult
    /\ tensor_file_path = NoHash
    /\ device = NULL
    /\ lt_result = NoLoad
    /\ lt_prev = NoLoad
    /\ CorrIdle
    /\ KernelInfoIdle
    /\ CacheIdle
    /\ ReproIdle
    /\ ExtractIdle
    /\ SassIdle

CreateArgs ==
    /\ pc = "create_args"
    /\ args_result' = create_args_from_json(impl, fs, json_data)
    /\ pc' = "done"
    /\ UNCHANGED <<json_data, corrVars, kiVars, ltVars, argVars, cacheVars, reproVars, fxVars,
                   sassVars>>

NextCreateArgs == CreateArgs

SpecCreateArgs == InitCreateArgs /\ [][NextCreateArgs]_vars

(***************************************************************************)
(* create_args_from_json properties                                        *)
(***************************************************************************)
\* the decoded document is a dict, or a one-element list holding a dict
AcceptedShape ==
    \/ json_data.kind = "dict"
    \/ /\ json_data.kind = "list"
       /\ Len(json_data.items) = 1
       /\ json_data.items[1].kind = "dict"

\* the dict whose arguments are materialized
LaunchObject == IF json_data.kind = "list" THEN json_data.items[1] ELSE json_data

ArgsGiven == LaunchObject.extracted_args

RecognizedTags == {"int", "bool", "tensor", TensorTag, StorageTag, LayoutTag}

\* what _create_arg_from_info of the running copy does for the i-th argument
OwnOutcome(i) == CreateArgFromInfo(impl, fs, ArgsGiven[i].info)

Unrecognized(i) == ArgsGiven[i].info.type \notin RecognizedTags

Raising == { i \in 1..Len(ArgsGiven) : OwnOutcome(i).status = "raise" }

\* C12: a descriptor whose tag is none of the recognized ones, a missing
\* type field included, yields None with a warning and no error; in
\* create_args_from_json its name is in the result, mapped to None, and
\* every other argument is materialized as on its own: the call fails only
\* with the error of another argument.
C12_UnrecognizedTagIsNull ==
    (pc = "done" /\ AcceptedShape /\ \E i \in 1..Len(ArgsGiven) : Unrecognized(i))
        => /\ \A i \in 1..Len(ArgsGiven) :
                Unrecognized(i) => OwnOutcome(i) = ArgReturn("unhandled", NoValue, TRUE)
           /\ Raising # {}
                => /\ args_result.status = "raise"
                   /\ \E i \in Raising :
                        /\ \A j \in Raising : i <= j
                        /\ args_result.exc = OwnOutcome(i).exc
                        /\ ~Unrecognized(i)
                        /\ Len(args_result.materialized) = i
           /\ Raising = {}
                => /\ args_result.status = "return"
                   /\ Len(args_result.args_dict) = Len(ArgsGiven)
                   /\ \A i \in 1..Len(ArgsGiven) :
                        /\ args_result.args_dict[i].name = ArgsGiven[i].name
                        /\ args_result.args_dict[i].value = OwnOutcome(i).value
                        /\ Unrecognized(i)
                             => /\ args_result.args_dict[i].value = NoValue
                                /\ args_result.args_dict[i].warned

\* a descriptor without type stands before a tensor, which is synthesized
C12_Witness ==
    /\ pc = "done"
    /\ AcceptedShape
    /\ Len(ArgsGiven) = 2
    /\ ArgsGiven[1].info.type = ABSENT
    /\ ArgsGiven[2].info.type = "tensor"
    /\ args_result.status = "return"
    /\ args_result.args_dict[1].value = NoValue
    /\ args_result.args_dict[2].value.kind = "synthesized"

\* C15 (as claimed): the decoded document is accepted iff it is a dict or a
\* one-element list holding a dict, and the wrapped dict is processed as if
\* it were the top level; every other shape ends in the input-format error
\* (message and sys.exit(1)) before any argument is materialized.
C15_TopLevelShape ==
    pc = "done" =>
        /\ AcceptedShape
              => /\ args_result.status # "exit"
                 /\ args_result = create_args_from_json(impl, fs, TopLevel(LaunchObject, <<>>))
        /\ ~AcceptedShape
              => /\ args_result.status = "exit"
                 /\ args_result.materialized = <<>>

(***************************************************************************)
(* SASS source-mapping specification                                       *)
(***************************************************************************)
InitSass ==
    /\ pc = "extract_sass_mappings"
    /\ sass_content \in SassContents
    /\ sass_mappings = <<>>
    /\ CorrIdle
    /\ KernelInfoIdle
    /\ LoaderIdle
    /\ ArgIdle
    /\ CreateArgsIdle
    /\ CacheIdle
    /\ ReproIdle
    /\ ExtractIdle

ExtractSassMappings ==
    /\ pc = "extract_sass_mappings"
    /\ sass_mappings' = extract_sass_mappings(sass_content)
    /\ pc' = "done"
    /\ UNCHANGED <<sass_content, corrVars, kiVars, ltVars, argVars, cjVars, cacheVars,
                   reproVars, fxVars>>

NextSass == ExtractSassMappings

SpecSass == InitSass /\ [][NextSass]_vars

\* the line n is an annotation of a file other than the placeholder
SourceAnnotation(n) ==
    sass_content[n].kind = "annotation" /\ sass_content[n].file # InternalFile

\* the annotations of source files that stand before the line n
Preceding(n) == { a \in 1..(n - 1) : SourceAnnotation(a) }

\* C14: the mapping has an entry exactly for the code lines that a source
\* annotation precedes, keyed by the decimal 1-based line number; its file
\* and line are those of the nearest preceding source annotation; no entry
\* names the placeholder file.
C14_NearestPrecedingAnnotation ==
    pc = "done" =>
        /\ DOMAIN sass_mappings
             = { DecimalString(n) : n \in { c \in 1..Len(sass_content) :
                                              /\ sass_content[c].kind = "code"
                                              /\ Preceding(c) # {} } }
        /\ \A n \in 1..Len(sass_content) :
              DecimalString(n) \in DOMAIN sass_mappings
                 => /\ sass_mappings[DecimalString(n)].sass_line = n
                    /\ sass_mappings[DecimalString(n)].column = 0
                    /\ sass_mappings[DecimalString(n)].file # InternalFile
                    /\ \E a \in Preceding(n) :
                          /\ \A b \in Preceding(n) : b <= a
                          /\ sass_mappings[DecimalString(n)].file = sass_content[a].file
                          /\ sass_mappings[DecimalString(n)].line = sass_content[a].line

\* a code line before the first annotation, and a code line after a source
\* annotation that a placeholder annotation follows
C14_Witness ==
    /\ pc = "done"
    /\ Len(sass_content) = 4
    /\ sass_content[1].kind = "code"
    /\ SourceAnnotation(2)
    /\ sass_content[3] = Annotation(InternalFile, 19)
    /\ sass_content[4].kind = "code"
    /\ DOMAIN sass_mappings = {"4"}

(***************************************************************************)
(* extract_utility_functions specification                                 *)
(***************************************************************************)
InitExtract ==
    /\ pc = "generate_imports"
    /\ utils_module \in UtilsModules
    /\ load_tensor_module \in LoadTensorModules
    /\ extracted_code = <<>>
    /\ extract_result = NoExtract
    /\ CorrIdle
    /\ KernelInfoIdle
    /\ LoaderIdle
    /\ ArgIdle
    /\ CreateArgsIdle
    /\ CacheIdle
    /\ ReproIdle
    /\ SassIdle

otherThanExtract == <<corrVars, kiVars, ltVars, argVars, cjVars, cacheVars, reproVars, sassVars>>

\* extracted_code.append(imports)
GenerateImports ==
    /\ pc = "generate_imports"
    /\ extracted_code' = <<ImportsChunk>>
    /\ pc' = "extract_constant"
    /\ UNCHANGED <<utils_module, load_tensor_module, extract_result, otherThanExtract>>

\* the statement is appended when a line of the module starts with the
\* constant's name; the empty chunk is appended in any case
ExtractConstant ==
    /\ pc = "extract_constant"
    /\ extracted_code' =
          (IF utils_module.constant
           THEN Append(extracted_code, ConstantChunk)
           ELSE extracted_code) \o <<"">>
    /\ pc' = "extract_load_tensor"
    /\ UNCHANGED <<utils_module, load_tensor_module, extract_result, otherThanExtract>>

ExtractLoadTensor ==
    /\ pc = "extract_load_tensor"
    /\ LET r == ExtractFunctions(load_tensor_module, load_tensor_functions, extracted_code)
       IN  IF r.status = "raise"
           THEN extract_result' = r /\ pc' = "done" /\ UNCHANGED extracted_code
           ELSE extracted_code' = r.code /\ pc' = "extract_utils"
                   /\ UNCHANGED extract_result
    /\ UNCHANGED <<utils_module, load_tensor_module, otherThanExtract>>

\* the loop over utils_functions and the return of the joined chunks
ExtractUtils ==
    /\ pc = "extract_utils"
    /\ extract_result' = ExtractFunctions(utils_module, utils_functions, extracted_code)
    /\ extracted_code' = extract_result'.code
    /\ pc' = "done"
    /\ UNCHANGED <<utils_module, load_tensor_module, otherThanExtract>>

NextExtract == GenerateImports \/ ExtractConstant \/ ExtractLoadTensor \/ ExtractUtils

SpecExtract == InitExtract /\ [][NextExtract]_vars

\* the modules are the files of the repository
AsShipped == utils_module = UtilsAsShipped /\ load_tensor_module = LoadTensorAsShipped

\* C16 (as claimed): on the repository's utils.py and load_tensor.py,
\* extract_utility_functions returns the imports, the constant, then the
\* source of load_tensor and of the seven listed utils functions; every
\* listed name is defined in its module, create_args_from_json_file, which
\* the template calls, among them.
C16_ListedFunctionsExtracted ==
    (pc = "done" /\ AsShipped)
        => /\ extract_result.status = "return"
           /\ extract_result.code
                 = <<ImportsChunk, ConstantChunk, "", "load_tensor">> \o utils_functions
           /\ \A i \in 1..Len(utils_functions) : utils_functions[i] \in utils_module.defs
           /\ \E i \in 1..Len(extract_result.code) :
                 extract_result.code[i] = "create_args_from_json_file"

(***************************************************************************)
(* Type-handle cache specification: threads build composite descriptors    *)
(* with _create_arg_from_info; each call goes through the availability     *)
(* check and the cached lookup                                             *)
(***************************************************************************)
InitCache ==
    /\ pc = "threads"
    /\ TRITON_KERNELS_CUSTOM_TYPES \in BOOLEAN
    /\ thread_pc = [t \in Threads |-> "call"]
    /\ calls_made = [t \in Threads |-> 0]
    /\ cache = NoHandle
    /\ body_runs = [t \in Threads |-> 0]
    /\ received = [t \in Threads |-> NoHandle]
    /\ arg_info = NoArgInfo
    /\ arg_result = NoArgResult
    /\ CorrIdle
    /\ KernelInfoIdle
    /\ LoaderIdle
    /\ CreateArgsIdle
    /\ ReproIdle
    /\ ExtractIdle
    /\ SassIdle

otherThanCache ==
    <<pc, TRITON_KERNELS_CUSTOM_TYPES, arg_info, arg_result, corrVars, kiVars, ltVars,
      cjVars, reproVars, fxVars, sassVars>>

\* a thread enters a composite branch: the availability check comes first
EnterComposite(t) ==
    /\ thread_pc[t] = "call"
    /\ calls_made[t] < MaxCalls
    /\ calls_made' = [calls_made EXCEPT ![t] = @ + 1]
    /\ thread_pc' = [thread_pc EXCEPT ![t] = IF MissingDependency THEN "raised" ELSE "lookup"]
    /\ UNCHANGED <<cache, body_runs, received, otherThanCache>>

\* the thread has no further descriptor
ThreadEnds(t) ==
    /\ thread_pc[t] = "call"
    /\ thread_pc' = [thread_pc EXCEPT ![t] = "done"]
    /\ UNCHANGED <<calls_made, cache, body_runs, received, otherThanCache>>

\* the wrapper of lru_cache probes the cache
CacheLookup(t) ==
    /\ thread_pc[t] = "lookup"
    /\ IF CacheHit(cache)
       THEN /\ received' = [received EXCEPT ![t] = cache]
            /\ thread_pc' = [thread_pc EXCEPT ![t] = "build"]
       ELSE /\ thread_pc' = [thread_pc EXCEPT ![t] = "body"]
            /\ UNCHANGED received
    /\ UNCHANGED <<calls_made, cache, body_runs, otherThanCache>>

\* the body of _get_triton_tensor_types: import_module and three getattr
RunBody(t) ==
    /\ thread_pc[t] = "body"
    /\ body_runs' = [body_runs EXCEPT ![t] = @ + 1]
    /\ IF ImportTypes.status = "raise"
       THEN /\ thread_pc' = [thread_pc EXCEPT ![t] = "raised"]
            /\ UNCHANGED received
       ELSE /\ received' = [received EXCEPT ![t] = ImportTypes.handle]
            /\ thread_pc' = [thread_pc EXCEPT ![t] = "store"]
    /\ UNCHANGED <<calls_made, cache, otherThanCache>>

\* the wrapper stores the result unless the key was added meanwhile
CacheStore(t) ==
    /\ thread_pc[t] = "store"
    /\ cache' = IF CacheHit(cache) THEN cache ELSE received[t]
    /\ thread_pc' = [thread_pc EXCEPT ![t] = "build"]
    /\ UNCHANGED <<calls_made, body_runs, received, otherThanCache>>

\* the object is built with the classes of the handle
BuildObject(t) ==
    /\ thread_pc[t] = "build"
    /\ thread_pc' = [thread_pc EXCEPT ![t] = "call"]
    /\ UNCHANGED <<calls_made, cache, body_runs, received, otherThanCache>>

NextCache ==
    \E t \in Threads :
        \/ EnterComposite(t)
        \/ ThreadEnds(t)
        \/ CacheLookup(t)
        \/ RunBody(t)
        \/ CacheStore(t)
        \/ BuildObject(t)

SpecCache == InitCache /\ [][NextCache]_vars

RECURSIVE RunsUpTo(_)
RunsUpTo(n) == IF n = 0 THEN 0 ELSE body_runs[n] + RunsUpTo(n - 1)

\* executions of the lookup body in the process
TotalBodyRuns == RunsUpTo(MaxThreads)

InitReproduce ==
    /\ pc = "load_ndjson"
    /\ events \in ReproEventLists
    /\ line_index \in LineIndexes
    /\ result = NoResult
    /\ comp_event \in ReproCompEvents
    /\ kinfo = NoKernelInfo
    /\ ReproIdle
    /\ LoaderIdle
    /\ ArgIdle
    /\ CreateArgsIdle
    /\ CacheIdle
    /\ ExtractIdle
    /\ SassIdle

otherThanReproduce == <<ltVars, argVars, cjVars, cacheVars, fxVars, sassVars>>

\* events = load_ndjson(Path(input_path), save_irs=True)
LoadNdjson ==
    /\ pc = "load_ndjson"
    /\ steps_done' = Append(steps_done, "load_ndjson")
    /\ pc' = "build_context_bundle"
    /\ UNCHANGED <<events, line_index, result, comp_event, kinfo, context_bundle,
                   made_dirs, written_files, otherThanReproduce>>

\* context_bundle = build_context_bundle(events, line_index): the correlator,
\* then get_kernel_info on the compilation event it returned
BuildContextBundle ==
    /\ pc = "build_context_bundle"
    /\ result' = get_launch_and_compilation_events(events, line_index)
    /\ kinfo' = IF result'.status = "return" THEN get_kernel_info(comp_event)
                ELSE NoKernelInfo
    /\ context_bundle' = build_context_bundle(result', kinfo')
    /\ steps_done' = Append(steps_done, "build_context_bundle")
    /\ pc' = IF BundleFailed(context_bundle') THEN "done" ELSE "determine_output_paths"
    /\ UNCHANGED <<events, line_index, comp_event, made_dirs, written_files,
                   otherThanReproduce>>

\* determine_output_paths: output_directory.mkdir(parents=True, exist_ok=True)
DetermineOutputPaths ==
    /\ pc = "determine_output_paths"
    /\ made_dirs' = made_dirs \cup {OutputDirectory(context_bundle.function_name)}
    /\ steps_done' = Append(steps_done, "determine_output_paths")
    /\ pc' = "save_prettified_json"
    /\ UNCHANGED <<events, line_index, result, comp_event, kinfo, context_bundle,
                   written_files, otherThanReproduce>>

\* save_prettified_json(context_bundle.raw_launch_event, temp_json_path)
SavePrettifiedJson ==
    /\ pc = "save_prettified_json"
    /\ written_files' = written_files \cup {TempJsonPath(context_bundle.function_name)}
    /\ steps_done' = Append(steps_done, "save_prettified_json")
    /\ pc' = "load_template_code"
    /\ UNCHANGED <<events, line_index, result, comp_event, kinfo, context_bundle,
                   made_dirs, otherThanReproduce>>

\* template_code = load_template_code(template)
LoadTemplateCode ==
    /\ pc = "load_template_code"
    /\ steps_done' = Append(steps_done, "load_template_code")
    /\ pc' = "done"
    /\ UNCHANGED <<events, line_index, result, comp_event, kinfo, context_bundle,
                   made_dirs, written_files, otherThanReproduce>>

NextReproduce ==
    \/ LoadNdjson
    \/ BuildContextBundle
    \/ DetermineOutputPaths
    \/ SavePrettifiedJson
    \/ LoadTemplateCode

SpecReproduce == InitReproduce /\ [][NextReproduce]_vars

\* the correlator or get_kernel_info has raised
CorrelationOrKernelInfoFailed == result.status = "raise" \/ kinfo.status = "raise"

\* both have run and returned
CorrelationAndKernelInfoSucceeded == result.status = "return" /\ kinfo.status = "return"

IsPrefix(s, t) == Len(s) <= Len(t) /\ \A i \in 1..Len(s) : s[i] = t[i]

\* C19: reproduce calls load_ndjson, build_context_bundle,
\* determine_output_paths, save_prettified_json and load_template_code in
\* this order; a directory exists and a file is written only after the
\* correlator and get_kernel_info have returned, and when either of them
\* raises, reproduce ends there with no directory created and no file
\* written.
C19_NoOutputBeforeBundle ==
    /\ IsPrefix(steps_done, ReproduceOrder)
    /\ made_dirs # {} => CorrelationAndKernelInfoSucceeded
    /\ written_files # {} => (CorrelationAndKernelInfoSucceeded /\ made_dirs # {})
    /\ CorrelationOrKernelInfoFailed
          => /\ made_dirs = {}
             /\ written_files = {}
             /\ pc = "done"
             /\ steps_done = <<"load_ndjson", "build_context_bundle">>
    /\ (pc = "done" /\ ~CorrelationOrKernelInfoFailed)
          => /\ steps_done = ReproduceOrder
             /\ made_dirs = {OutputDirectory(kinfo.function_name)}
             /\ written_files = {TempJsonPath(kinfo.function_name)}

\* the correlator returned a pair and the kernel name could not be resolved
C19_Witness ==
    /\ pc = "done"
    /\ result.status = "return"
    /\ kinfo.status = "raise"
    /\ kinfo.exc = "RuntimeError"
    /\ steps_done = <<"load_ndjson", "build_context_bundle">>
    /\ made_dirs = {}
    /\ written_files = {}

====
